---- MODULE Spec2Model ----
(***************************************************************************)
(* DAWZY: the Electron main process' transport to the Python backend       *)
(* (main.js) and the renderer's chat window and capture buttons            *)
(* (ChatWindow.jsx, VoiceButton.jsx, RecordButton.jsx).                    *)
(***************************************************************************)
EXTENDS Integers, Sequences, FiniteSets, TLC

(***************************************************************************)
(* Bounds of the model.                                                    *)
(***************************************************************************)
MaxReqs == 2
MaxProcs == 2
MaxReplies == 2
MaxStreams == 2
MaxCalls == 2
MaxChunks == 1
MaxClock == 2

(***************************************************************************)
(* Program constants (milliseconds).                                       *)
(***************************************************************************)
RequestTimeoutMs == 10000
RestartDelayMs == 2000

\* One step of the model's clock: the shortest delay the program uses.
TickMs == RestartDelayMs

\* Timers count down in ticks.
RequestTimeoutTicks == RequestTimeoutMs \div TickMs
RestartDelayTicks == RestartDelayMs \div TickMs

Reqs == 1..MaxReqs
Procs == 1..MaxProcs
NoProc == 0
\* A request's timer: never set, run, or the ticks left until it runs.
TimerUnset == 0 - 1
TimerFired == 0 - 2

VARIABLES
  \* ---- main.js ----
  ready,          \* app.whenReady() has resolved
  platform,       \* process.platform: "darwin" or "other"
  mainWindow,     \* mainWindow is a non-null BrowserWindow
  isQuitting,     \* app.isQuitting
  pythonProcess,  \* the pythonProcess global: NoProc (null) or a process
  procState,      \* per spawned process: "none", "running", "exited"
  killed,         \* per process: its .killed flag
  restartTimers,  \* pending setTimeout(startPythonBackend, 2000): ticks left of each
  nextReq,        \* the next invocation of the 'send-to-backend' handler
  reqState,       \* per invocation, its promise: "none", "pending", "resolved", "rejected"
  reqResult,      \* per invocation: what its promise settled with
  reqProc,        \* per invocation: the process its listener was registered on
  reqTimer,       \* per invocation: its 10 s timeout (ticks left, unset or fired)
  listeners,      \* <<p, r>>: r's responseHandler is a 'data' listener of p.stdout
  stdinWrites,    \* <<p, r>>: r's message was written to p.stdin
  received,       \* <<p, r>>: the backend process p has read r's message
  replyCount,     \* per invocation: replies the backend has emitted for it
  delivered,      \* per invocation: times its responseHandler called resolve
  reqSuccess,     \* per invocation: the success field of the reply it resolved with
  voiceWrites     \* states of the process at the writes of 'send-voice-to-backend'

VARIABLES
  \* ---- ChatWindow.jsx ----
  messages,          \* the conversation log
  input,             \* the textarea's text: "" or "typed"
  liveTranscription, \* "" or "live"
  isLoading,
  isVoiceMode,
  chatIsRecording,   \* ChatWindow's own isRecording state
  callState,         \* per sendMessage invocation: "none", "fetching", "hung", "done",
                     \* "threw" (ended in an exception)
  placeholders,      \* pending setTimeout(..., 1000) of handleAudioRecorded
  clock,             \* the latest reading of Date.now()
  \* ---- the microphone: streams, their recorders and audio contexts ----
  media,
  \* ---- VoiceButton.jsx ----
  vIsRecording,
  vIsProcessing,
  vStarts,           \* startRecording calls awaiting getUserMedia: the isVoiceMode
                     \* each closure captured
  vRecorderRef,      \* mediaRecorderRef.current
  vStreamRef,        \* streamRef.current
  vCtxRef,           \* audioContextRef.current
  vIntervalRef,      \* transcriptionIntervalRef.current
  vIntervals,        \* the transcription intervals that are set
  vChunks,           \* audioChunksRef.current
  \* ---- RecordButton.jsx ----
  rIsRecording,
  rStarts,           \* startRecording calls awaiting getUserMedia
  rRecorderRef,      \* mediaRecorderRef.current
  rTimerRef,         \* timerRef.current and autoStopRef.current
  rIntervals,        \* the recording-time intervals that are set
  rAutoStops,        \* the auto-stop timeouts that are pending
  rChunks,           \* audioChunksRef.current
  \* ---- React ----
  mounted            \* ChatWindow and its buttons are mounted

VARIABLES
  \* ---- VAPIVoiceButton.jsx ----
  vapiIsVoiceMode,
  vapiIsRecording,
  vapiStarts,        \* startRecording calls awaiting getUserMedia
  vapiRecorderRef,   \* mediaRecorderRef.current
  vapiStreamRef,     \* streamRef.current
  vapiTimerRef,      \* timerRef.current
  vapiIntervals,     \* the recording-time intervals that are set
  vapiChunks         \* audioChunksRef.current

VARIABLES
  \* ---- VoiceButton.jsx, the second (single-mode) component ----
  simpleIsRecording,
  simpleStarts,      \* startRecording calls awaiting getUserMedia
  simpleRecorderRef, \* mediaRecorderRef.current
  simpleChunks       \* audioChunksRef.current

transportVars == <<ready, platform, mainWindow, isQuitting, pythonProcess, procState,
                   killed, restartTimers, nextReq, reqState, reqResult,
                   reqProc, reqTimer, listeners, stdinWrites, received, replyCount,
                   delivered, reqSuccess, voiceWrites>>

chatVars == <<messages, input, liveTranscription, isLoading, isVoiceMode,
              chatIsRecording, callState, placeholders, clock>>

voiceVars == <<vIsRecording, vIsProcessing, vStarts, vRecorderRef, vStreamRef,
               vCtxRef, vIntervalRef, vIntervals, vChunks>>

recordVars == <<rIsRecording, rStarts, rRecorderRef, rTimerRef, rIntervals,
                rAutoStops, rChunks>>

vapiVars == <<vapiIsVoiceMode, vapiIsRecording, vapiStarts, vapiRecorderRef,
              vapiStreamRef, vapiTimerRef, vapiIntervals, vapiChunks>>

simpleVars == <<simpleIsRecording, simpleStarts, simpleRecorderRef, simpleChunks>>

uiVars == <<chatVars, media, voiceVars, recordVars, mounted, vapiVars, simpleVars>>

vars == <<transportVars, uiVars>>

\* What a promise settled with: the kind of result; for a reply, the invocation
\* whose message the backend answered (of) and the state of that invocation's
\* promise when the reply arrived (ofState); and whether the process the
\* invocation wrote to was running when it settled (procAtSettle).
Res(kind, of, ofState, pstate) ==
  [kind |-> kind, of |-> of, ofState |-> ofState, procAtSettle |-> pstate]

NoResult == Res("none", 0, "none", "none")

TransportInit ==
  /\ ready = FALSE
  /\ platform \in {"darwin", "other"}
  /\ mainWindow = FALSE
  /\ isQuitting = FALSE
  /\ pythonProcess = NoProc
  /\ procState = [p \in Procs |-> "none"]
  /\ killed = [p \in Procs |-> FALSE]
  /\ restartTimers = <<>>
  /\ nextReq = 1
  /\ reqState = [r \in Reqs |-> "none"]
  /\ reqResult = [r \in Reqs |-> NoResult]
  /\ reqProc = [r \in Reqs |-> NoProc]
  /\ reqTimer = [r \in Reqs |-> TimerUnset]
  /\ listeners = {}
  /\ stdinWrites = {}
  /\ received = {}
  /\ replyCount = [r \in Reqs |-> 0]
  /\ delivered = [r \in Reqs |-> 0]
  /\ reqSuccess = [r \in Reqs |-> "none"]
  /\ voiceWrites = {}


\* app.quit() has closed the last window after 'before-quit': the main process
\* has terminated and runs nothing more.
AppExited == isQuitting /\ ~mainWindow

\* The processes spawned so far are 1..Spawned.
Spawned == Cardinality({p \in Procs : procState[p] # "none"})

ProcStateOf(p) == IF p = NoProc THEN "none" ELSE procState[p]

\* A timer whose delay has passed runs before more time passes, and timers
\* of equal delay run in the order they were set.
DueTimers == {r \in Reqs : reqTimer[r] = 0}

FirstDueTimer(r) == r \in DueTimers /\ \A q \in DueTimers : r <= q

RestartDue == Len(restartTimers) > 0 /\ Head(restartTimers) = 0

\* A promise settles once: resolve and reject of a settled promise do nothing.
Settle(states, r, s) ==
  IF states[r] = "pending" THEN [states EXCEPT ![r] = s] ELSE states

SettleResult(results, states, r, v) ==
  IF states[r] = "pending" THEN [results EXCEPT ![r] = v] ELSE results

\* startPythonBackend: spawn a process and make it the pythonProcess global.
StartPythonBackend(p) ==
  /\ pythonProcess' = p
  /\ procState' = [procState EXCEPT ![p] = "running"]

\* app.whenReady().then(...): createWindow(), startPythonBackend().
WhenReady ==
  /\ ~ready
  /\ ready' = TRUE
  /\ mainWindow' = TRUE
  /\ StartPythonBackend(Spawned + 1)
  /\ UNCHANGED <<platform, isQuitting, killed, restartTimers, nextReq, reqState, reqResult, reqProc, reqTimer, listeners, stdinWrites,
                 received, replyCount, delivered, voiceWrites>>
  /\ UNCHANGED reqSuccess
  /\ UNCHANGED uiVars

\* A reply handler that leaves itself registered.
RemoveOnReply_Keep(ls, q) == ls

\* responseHandler, line 116: the listener is removed from the stdout of
\* whatever process the pythonProcess global names when the reply arrives.
RemoveOnReply(ls, q) == ls \ {<<pythonProcess, q>>}

RECURSIVE RunHandlers(_, _)
RunHandlers(ls, qs) ==
  IF qs = {} THEN ls
  ELSE LET q == CHOOSE x \in qs : TRUE
       IN RunHandlers(RemoveOnReply(ls, q), qs \ {q})

\* The timeout callback, line 136, and the catch block, line 140.
RemoveOnTimeout(ls, r) == ls \ {<<pythonProcess, r>>}

\* JSON.stringify throws on a message it cannot serialise (a BigInt).
Messages == {"text", "unserialisable"}

\* The guard of both handlers, lines 106 and 147.
BackendNotRunning == pythonProcess = NoProc

\* ipcMain.handle('send-to-backend'): the guard, the listener, the write and
\* the timeout, up to the return of the promise.
SendToBackend(message) ==
  /\ ready /\ mainWindow
  /\ nextReq <= MaxReqs
  /\ LET r == nextReq IN
     /\ nextReq' = r + 1
     /\ IF BackendNotRunning
        THEN /\ reqState' = [reqState EXCEPT ![r] = "rejected"]
             /\ reqResult' = [reqResult EXCEPT ![r] =
                                Res("notRunning", 0, "none", ProcStateOf(pythonProcess))]
             /\ UNCHANGED <<reqProc, reqTimer, listeners, stdinWrites, received>>
        ELSE IF message = "unserialisable"
        THEN /\ reqState' = [reqState EXCEPT ![r] = "rejected"]
             /\ reqResult' = [reqResult EXCEPT ![r] =
                                Res("writeError", 0, "none", ProcStateOf(pythonProcess))]
             /\ reqProc' = [reqProc EXCEPT ![r] = pythonProcess]
             /\ listeners' = RemoveOnTimeout(listeners \cup {<<pythonProcess, r>>}, r)
             /\ UNCHANGED <<reqTimer, stdinWrites, received>>
        ELSE /\ reqState' = [reqState EXCEPT ![r] = "pending"]
             /\ reqProc' = [reqProc EXCEPT ![r] = pythonProcess]
             /\ listeners' = listeners \cup {<<pythonProcess, r>>}
             /\ stdinWrites' = stdinWrites \cup {<<pythonProcess, r>>}
             /\ received' = IF procState[pythonProcess] = "running"
                            THEN received \cup {<<pythonProcess, r>>}
                            ELSE received
             /\ reqTimer' = [reqTimer EXCEPT ![r] = RequestTimeoutTicks]
             /\ UNCHANGED reqResult
  /\ UNCHANGED <<ready, platform, mainWindow, isQuitting, pythonProcess, procState,
                 killed, restartTimers, replyCount, delivered, voiceWrites>>
  /\ UNCHANGED reqSuccess
  /\ UNCHANGED uiVars

\* ipcMain.handle('send-voice-to-backend'): the guard and the write; the fixed
\* acknowledgement is returned at once.  The handler's one effect is the write
\* to pythonProcess.stdin; voiceWrites keeps whether the process written to
\* was running.
SendVoiceToBackend(audioData) ==
  /\ ready /\ mainWindow
  /\ voiceWrites' =
       IF BackendNotRunning \/ audioData = "unserialisable"
       THEN voiceWrites
       ELSE voiceWrites \cup {ProcStateOf(pythonProcess)}
  /\ UNCHANGED <<ready, platform, mainWindow, isQuitting, pythonProcess, procState,
                 killed, restartTimers, nextReq, reqState, reqResult, reqProc,
                 reqTimer, listeners, stdinWrites, received, replyCount, delivered>>
  /\ UNCHANGED reqSuccess
  /\ UNCHANGED uiVars

\* What the backend writes to its stdout: a {type: 'response'} line with
\* success true, one with success false, or anything else (a log line, a
\* partial line).
DataKinds == {"response", "failedResponse", "other"}

\* responseHandler, line 115: response.type === 'response'.
IsResponse(kind) == kind # "other"

\* The success field of the value responseHandler resolves with, line 119.
SuccessOf(kind) == IF kind = "response" THEN "true" ELSE "false"

\* pythonProcess.stdout 'data': the backend process p answers the message of
\* invocation r; every responseHandler registered on p.stdout runs.
BackendData(p, r, kind) ==
  /\ ~AppExited
  /\ procState[p] = "running"
  /\ <<p, r>> \in received
  /\ replyCount[r] < MaxReplies
  /\ replyCount' = IF IsResponse(kind) THEN [replyCount EXCEPT ![r] = @ + 1]
                   ELSE replyCount
  /\ LET hs == {q \in Reqs : <<p, q>> \in listeners} IN
     IF IsResponse(kind)
     THEN /\ listeners' = RunHandlers(listeners, hs)
          /\ delivered' = [q \in Reqs |-> IF q \in hs THEN delivered[q] + 1
                                          ELSE delivered[q]]
          /\ reqState' = [q \in Reqs |-> IF q \in hs /\ reqState[q] = "pending"
                                         THEN "resolved" ELSE reqState[q]]
          /\ reqResult' = [q \in Reqs |->
                             IF q \in hs /\ reqState[q] = "pending"
                             THEN Res("reply", r, reqState[r], ProcStateOf(reqProc[q]))
                             ELSE reqResult[q]]
          /\ reqSuccess' = [q \in Reqs |->
                              IF q \in hs /\ reqState[q] = "pending"
                              THEN SuccessOf(kind) ELSE reqSuccess[q]]
     ELSE UNCHANGED <<listeners, delivered, reqState, reqResult, reqSuccess>>
  /\ UNCHANGED <<ready, platform, mainWindow, isQuitting, pythonProcess, procState,
                 killed, restartTimers, nextReq, reqProc, reqTimer,
                 stdinWrites, received, voiceWrites>>
  /\ UNCHANGED uiVars

\* The setTimeout callback of send-to-backend, 10 s after the write.
RequestTimeout(r) ==
  /\ ~AppExited
  /\ FirstDueTimer(r)
  /\ reqTimer' = [reqTimer EXCEPT ![r] = TimerFired]
  /\ listeners' = RemoveOnTimeout(listeners, r)
  /\ reqState' = Settle(reqState, r, "rejected")
  /\ reqResult' = SettleResult(reqResult, reqState, r,
                               Res("timeout", 0, "none", ProcStateOf(reqProc[r])))
  /\ UNCHANGED <<ready, platform, mainWindow, isQuitting, pythonProcess, procState,
                 killed, restartTimers, nextReq, reqProc, stdinWrites,
                 received, replyCount, delivered, voiceWrites>>
  /\ UNCHANGED reqSuccess
  /\ UNCHANGED uiVars

\* A close handler that restarts the backend without a delay.
CloseHandler_Immediate(timers) ==
  IF mainWindow /\ ~isQuitting THEN Append(timers, 0) ELSE timers

\* pythonProcess.on('close'): a restart is scheduled while the window exists
\* and the app is not quitting.
CloseHandler(timers) ==
  IF mainWindow /\ ~isQuitting THEN Append(timers, RestartDelayTicks) ELSE timers

\* The backend process p exits and its 'close' handler runs.  The backend
\* crashes at most MaxProcs - 1 times while a restart would follow.
BackendExit(p) ==
  /\ ~AppExited
  /\ procState[p] = "running"
  /\ (mainWindow /\ ~isQuitting) => Spawned < MaxProcs
  /\ procState' = [procState EXCEPT ![p] = "exited"]
  /\ restartTimers' = CloseHandler(restartTimers)
  /\ UNCHANGED <<ready, platform, mainWindow, isQuitting, pythonProcess, killed,
                 nextReq, reqState, reqResult, reqProc, reqTimer, listeners,
                 stdinWrites, received, replyCount, delivered, voiceWrites>>
  /\ UNCHANGED reqSuccess
  /\ UNCHANGED uiVars

\* setTimeout(startPythonBackend, 2000) fires.
RestartBackend ==
  /\ ~AppExited
  /\ RestartDue
  /\ Spawned < MaxProcs
  /\ restartTimers' = Tail(restartTimers)
  /\ StartPythonBackend(Spawned + 1)
  /\ UNCHANGED <<ready, platform, mainWindow, isQuitting, killed, nextReq, reqState, reqResult, reqProc, reqTimer, listeners, stdinWrites,
                 received, replyCount, delivered, voiceWrites>>
  /\ UNCHANGED reqSuccess
  /\ UNCHANGED uiVars

\* app.on('before-quit'): isQuitting, and kill() of the backend process.
\* kill() sets .killed only when the signal reached a live process.
BeforeQuitEffects ==
  /\ isQuitting' = TRUE
  /\ killed' = IF pythonProcess # NoProc /\ procState[pythonProcess] = "running"
               THEN [killed EXCEPT ![pythonProcess] = TRUE]
               ELSE killed

BeforeQuit ==
  /\ ready /\ ~isQuitting
  /\ BeforeQuitEffects
  /\ UNCHANGED <<ready, platform, mainWindow, pythonProcess, procState,
                 restartTimers, nextReq, reqState, reqResult, reqProc,
                 reqTimer, listeners, stdinWrites, received, replyCount, delivered, voiceWrites>>
  /\ UNCHANGED reqSuccess
  /\ UNCHANGED uiVars

\* mainWindow.on('closed') and app.on('window-all-closed'): off macOS the
\* app quits when its only window is closed.
WindowClosed ==
  /\ mainWindow
  /\ mainWindow' = FALSE
  /\ IF platform # "darwin" /\ ~isQuitting
     THEN BeforeQuitEffects
     ELSE UNCHANGED <<isQuitting, killed>>
  /\ UNCHANGED <<ready, platform, pythonProcess, procState, restartTimers, nextReq,
                 reqState, reqResult, reqProc, reqTimer, listeners,
                 stdinWrites, received, replyCount, delivered, voiceWrites>>
  /\ UNCHANGED reqSuccess
  /\ UNCHANGED uiVars

\* An activate handler that starts the backend along with the window.
Activate_StartsBackend ==
  /\ ready /\ platform = "darwin" /\ ~isQuitting
  /\ ~mainWindow
  /\ Spawned < MaxProcs
  /\ mainWindow' = TRUE
  /\ StartPythonBackend(Spawned + 1)
  /\ UNCHANGED <<ready, platform, isQuitting, killed, restartTimers, nextReq,
                 reqState, reqResult, reqProc, reqTimer, listeners, stdinWrites,
                 received, replyCount, delivered, voiceWrites>>
  /\ UNCHANGED reqSuccess
  /\ UNCHANGED uiVars

\* app.on('activate'): macOS re-creates the window; the backend is not started.
Activate ==
  /\ ready /\ platform = "darwin" /\ ~isQuitting
  /\ ~mainWindow
  /\ mainWindow' = TRUE
  /\ UNCHANGED <<ready, platform, isQuitting, pythonProcess, procState, killed,
                 restartTimers, nextReq, reqState, reqResult, reqProc,
                 reqTimer, listeners, stdinWrites, received, replyCount, delivered, voiceWrites>>
  /\ UNCHANGED reqSuccess
  /\ UNCHANGED uiVars

\* Time passes by one tick, unless a timer is due; every pending timer
\* comes one tick closer.
Tick ==
  /\ ~AppExited
  /\ DueTimers = {} /\ ~RestartDue
  /\ (\E r \in Reqs : reqTimer[r] > 0) \/ Len(restartTimers) > 0
  /\ reqTimer' = [r \in Reqs |-> IF reqTimer[r] > 0 THEN reqTimer[r] - 1
                                 ELSE reqTimer[r]]
  /\ restartTimers' = [i \in 1..Len(restartTimers) |-> restartTimers[i] - 1]
  /\ UNCHANGED <<ready, platform, mainWindow, isQuitting, pythonProcess, procState,
                 killed, nextReq, reqState, reqResult, reqProc, listeners,
                 stdinWrites, received, replyCount, delivered, voiceWrites>>
  /\ UNCHANGED reqSuccess
  /\ UNCHANGED uiVars

\* The request protocol of main.js while the app is up and its window open.
TransportNext ==
  \/ WhenReady
  \/ \E m \in Messages : SendToBackend(m)
  \/ \E m \in Messages : SendVoiceToBackend(m)
  \/ \E p \in Procs, r \in Reqs, k \in DataKinds : BackendData(p, r, k)
  \/ \E r \in Reqs : RequestTimeout(r)
  \/ \E p \in Procs : BackendExit(p)
  \/ RestartBackend
  \/ Tick

\* All of main.js: the request protocol and the app's life cycle.
MainNext ==
  \/ TransportNext
  \/ BeforeQuit
  \/ WindowClosed
  \/ Activate

(***************************************************************************)
(* The renderer: ChatWindow.jsx with its VoiceButton and RecordButton.     *)
(* The renderer talks to the Flask backend with fetch and to the main      *)
(* process with the 'save-audio-file' IPC call of preload.js; it never     *)
(* uses the 'send-to-backend' channel.                                     *)
(***************************************************************************)
Streams == 1..MaxStreams

Calls == 1..MaxCalls

NoStream == 0

NoCall == 0

NoBlob == 0 - 1

\* A microphone stream with the MediaRecorder and the AudioContext made for it:
\* the component that opened it, whether its tracks are still running, the
\* recorder's state ("failed" if it could not be made or started, "recording",
\* "stopping" once stop() is called, "waiting" while onstop awaits the
\* backend, "hung", "done"), the isVoiceMode its
\* closures captured, the audio context's state, the number of chunks in the
\* blob onstop assembled and whether onstop issued a request for it; and
\* the number of chunks the recorder has delivered to ondataavailable, of
\* calls that stopped the stream's tracks and of calls of close() on its
\* audio context; and whether its transcription interval has fired while it
\* was recording with chunks accumulated (polled) and whether the interval
\* has sent accumulated audio for transcription (interim).
NoMedia ==
  [owner |-> "none", live |-> FALSE, rec |-> "none", mode |-> FALSE,
   ctx |-> "none", chunks |-> NoBlob, asked |-> FALSE,
   captured |-> 0, stops |-> 0, closes |-> 0, polled |-> FALSE, interim |-> FALSE]

\* An entry of the conversation log.  call and rec name the sendMessage call
\* or the recording the entry was appended for.
Message(id, sender, kind, call, rec) ==
  [id |-> id, sender |-> sender, kind |-> kind, call |-> call, rec |-> rec]

InitialMessages == <<Message(1, "ai", "greeting", NoCall, NoStream)>>

\* Date.now() is past the id of the greeting.
ClockStart == InitialMessages[1].id + 1

UIInit ==
  /\ messages = InitialMessages
  /\ input = ""
  /\ liveTranscription = ""
  /\ isLoading = FALSE
  /\ isVoiceMode = FALSE
  /\ chatIsRecording = FALSE
  /\ callState = [c \in Calls |-> "none"]
  /\ placeholders = <<>>
  /\ clock = ClockStart
  /\ media = [s \in Streams |-> NoMedia]
  /\ vIsRecording = FALSE
  /\ vIsProcessing = FALSE
  /\ vStarts = <<>>
  /\ vRecorderRef = NoStream
  /\ vStreamRef = NoStream
  /\ vCtxRef = NoStream
  /\ vIntervalRef = NoStream
  /\ vIntervals = {}
  /\ vChunks = <<>>
  /\ rIsRecording = FALSE
  /\ rStarts = 0
  /\ rRecorderRef = NoStream
  /\ rTimerRef = NoStream
  /\ rIntervals = {}
  /\ rAutoStops = {}
  /\ rChunks = <<>>
  /\ mounted = TRUE
  /\ vapiIsVoiceMode = FALSE
  /\ vapiIsRecording = FALSE
  /\ vapiStarts = 0
  /\ vapiRecorderRef = NoStream
  /\ vapiStreamRef = NoStream
  /\ vapiTimerRef = NoStream
  /\ vapiIntervals = {}
  /\ vapiChunks = <<>>
  /\ simpleIsRecording = FALSE
  /\ simpleStarts = 0
  /\ simpleRecorderRef = NoStream
  /\ simpleChunks = <<>>

\* Date.now() never goes back; two readings may fall in the same millisecond.
Now == clock..(IF clock < MaxClock THEN clock + 1 ELSE clock)

\* The sendMessage calls that passed the guard so far are 1..NextCall - 1.
NextCall == Cardinality({c \in Calls : callState[c] # "none"}) + 1

\* The streams opened so far are 1..Opened.
Opened == Cardinality({s \in Streams : media[s].owner # "none"})

\* getUserMedia is called at most MaxStreams times.
MicBudget ==
  Opened + Len(vStarts) + rStarts + vapiStarts + simpleStarts < MaxStreams

RemoveAt(seq, i) == [j \in 1..(Len(seq) - 1) |-> IF j < i THEN seq[j] ELSE seq[j + 1]]

\* stream.getTracks().forEach(t => t.stop())
StopTracks(m, s) ==
  IF s = NoStream THEN m
  ELSE [m EXCEPT ![s].live = FALSE, ![s].stops = @ + 1]

\* audioContext.close()
CloseContext(m, s) ==
  IF s = NoStream THEN m
  ELSE [m EXCEPT ![s].ctx = IF @ = "open" THEN "closed" ELSE @,
                 ![s].closes = @ + 1]

\* mediaRecorder.stop(): the recorder becomes inactive and its final
\* 'dataavailable' and 'stop' events are queued.
StopRecorder(m, s) ==
  [m EXCEPT ![s].rec = IF @ = "recording" THEN "stopping" ELSE @]

\* ---- ChatWindow.jsx ----

\* handleTextareaChange; the textarea is disabled while isLoading.
HandleTextareaChange(value) ==
  /\ mounted
  /\ ~isLoading
  /\ ~(isVoiceMode /\ chatIsRecording)
  /\ value # input
  /\ input' = value
  /\ UNCHANGED <<messages, liveTranscription, isLoading, isVoiceMode,
                 chatIsRecording, callState, placeholders, clock>>
  /\ UNCHANGED <<media, voiceVars, recordVars, transportVars, mounted, vapiVars, simpleVars>>

\* sendMessage from its guard to the await of fetch, as call c at time t.
SendMessageStart(c, t) ==
  /\ input' = ""
  /\ liveTranscription' = ""
  /\ isLoading' = TRUE
  /\ messages' = Append(messages, Message(t, "user", "text", c, NoStream))
  /\ callState' = [callState EXCEPT ![c] = "fetching"]
  /\ clock' = t

\* handleKeyPress with Enter: sendMessage() with the textarea's text.  The
\* textarea is disabled while isLoading.
HandleKeyPress ==
  /\ mounted
  /\ ~isLoading
  /\ input # "" \/ liveTranscription # ""
  /\ NextCall <= MaxCalls
  /\ \E t \in Now : SendMessageStart(NextCall, t)
  /\ UNCHANGED <<isVoiceMode, chatIsRecording, placeholders>>
  /\ UNCHANGED <<media, voiceVars, recordVars, transportVars, mounted, vapiVars, simpleVars>>

ChatOutcomes == {"success", "failure", "unreachable"}

\* A sendMessage that appends its assistant message twice.
ReplyMessages_Twice(c, outcome, t) ==
  <<Message(t + 1, "ai", "response", c, NoStream),
    Message(t + 1, "ai", "response", c, NoStream)>>

\* A sendMessage whose catch block appends nothing.
ReplyMessages_SilentCatch(c, outcome, t) ==
  IF outcome = "unreachable" THEN <<>>
  ELSE <<Message(t + 1, "ai", "response", c, NoStream)>>

\* The assistant message sendMessage appends when its fetch settles: the
\* success branch, the success:false branch and the catch block append one each.
ReplyMessages(c, outcome, t) ==
  CASE outcome = "success"     -> <<Message(t + 1, "ai", "response", c, NoStream)>>
    [] outcome = "failure"     -> <<Message(t + 1, "ai", "error", c, NoStream)>>
    [] outcome = "unreachable" -> <<Message(t + 1, "ai", "unreachable", c, NoStream)>>

\* A sendMessage without its catch block: a rejected fetch leaves the call
\* as an exception.
SendMessageEnds_NoCatch(outcome) ==
  IF outcome = "unreachable" THEN "threw" ELSE "done"

\* How sendMessage ends once its fetch has settled: the try block and the
\* catch block both run to the finally block and the call returns.
SendMessageEnds(outcome) ==
  CASE outcome = "success"     -> "done"
    [] outcome = "failure"     -> "done"
    [] outcome = "unreachable" -> "done"

\* The fetch of call c settles and sendMessage runs to its end.
ChatResponse(c, outcome) ==
  /\ callState[c] = "fetching"
  /\ \E t \in Now :
       /\ clock' = t
       /\ messages' = messages \o ReplyMessages(c, outcome, t)
  /\ isLoading' = FALSE
  /\ callState' = [callState EXCEPT ![c] = SendMessageEnds(outcome)]
  /\ UNCHANGED <<input, liveTranscription, isVoiceMode, chatIsRecording, placeholders>>
  /\ UNCHANGED <<media, voiceVars, recordVars, transportVars, mounted, vapiVars, simpleVars>>

\* The backend accepts the request of call c and never answers it: fetch is
\* called without a signal or a timeout, so its promise stays pending.
ChatNeverAnswered(c) ==
  /\ callState[c] = "fetching"
  /\ callState' = [callState EXCEPT ![c] = "hung"]
  /\ UNCHANGED <<messages, input, liveTranscription, isLoading, isVoiceMode,
                 chatIsRecording, placeholders, clock>>
  /\ UNCHANGED <<media, voiceVars, recordVars, transportVars, mounted, vapiVars, simpleVars>>

\* The setTimeout callback of handleAudioRecorded, one second after it.
PlaceholderResponse ==
  /\ Len(placeholders) > 0
  /\ \E t \in Now :
       /\ clock' = t
       /\ messages' = Append(messages,
                             Message(t + 1, "ai", "placeholder", NoCall, Head(placeholders)))
  /\ placeholders' = Tail(placeholders)
  /\ UNCHANGED <<input, liveTranscription, isLoading, isVoiceMode,
                 chatIsRecording, callState>>
  /\ UNCHANGED <<media, voiceVars, recordVars, transportVars, mounted, vapiVars, simpleVars>>

\* VoiceButton.toggleMode and ChatWindow.handleModeChange; the toggle is
\* disabled while isLoading or while the VoiceButton is recording.
ToggleMode ==
  /\ mounted
  /\ ~isLoading /\ ~vIsRecording
  /\ isVoiceMode' = ~isVoiceMode
  /\ liveTranscription' = ""
  /\ chatIsRecording' = FALSE
  /\ input' = IF ~isVoiceMode THEN "" ELSE input
  /\ UNCHANGED <<messages, isLoading, callState, placeholders, clock>>
  /\ UNCHANGED <<media, voiceVars, recordVars, transportVars, mounted, vapiVars, simpleVars>>

\* ---- VoiceButton.jsx ----

\* handleClick while not recording: startRecording runs to its await of
\* getUserMedia.  The button is disabled while isLoading or isProcessing;
\* nothing else guards the call.
VoiceStartRecording ==
  /\ mounted
  /\ ~isLoading /\ ~vIsProcessing
  /\ ~vIsRecording
  /\ MicBudget
  /\ vStarts' = Append(vStarts, isVoiceMode)
  /\ UNCHANGED <<vIsRecording, vIsProcessing, vRecorderRef, vStreamRef, vCtxRef,
                 vIntervalRef, vIntervals, vChunks>>
  /\ UNCHANGED <<chatVars, media, recordVars, transportVars, mounted, vapiVars, simpleVars>>

\* getUserMedia rejects for the i-th pending startRecording: the catch block.
VoiceMicDenied(i) ==
  /\ i \in 1..Len(vStarts)
  /\ vStarts' = RemoveAt(vStarts, i)
  /\ UNCHANGED <<vIsRecording, vIsProcessing, vRecorderRef, vStreamRef, vCtxRef,
                 vIntervalRef, vIntervals, vChunks>>
  /\ UNCHANGED <<chatVars, media, recordVars, transportVars, mounted, vapiVars, simpleVars>>

\* getUserMedia resolves for the i-th pending startRecording, which runs to
\* its end with the isVoiceMode of the render it was called in.
VoiceMicGranted(i) ==
  /\ i \in 1..Len(vStarts)
  /\ LET s == Opened + 1
         mode == vStarts[i]
     IN /\ media' = [media EXCEPT ![s] =
                       [owner |-> "voice", live |-> TRUE, rec |-> "recording",
                        mode |-> mode, ctx |-> "open", chunks |-> NoBlob,
                        asked |-> FALSE, captured |-> 0, stops |-> 0,
                        closes |-> 0, polled |-> FALSE, interim |-> FALSE]]
        /\ vStreamRef' = s
        /\ vCtxRef' = s
        /\ vRecorderRef' = s
        /\ vChunks' = <<>>
        /\ vIsRecording' = TRUE
        /\ IF mode
           THEN /\ chatIsRecording' = TRUE
                /\ vIntervalRef' = s
                /\ vIntervals' = vIntervals \cup {s}
           ELSE UNCHANGED <<chatIsRecording, vIntervalRef, vIntervals>>
  /\ vStarts' = RemoveAt(vStarts, i)
  /\ UNCHANGED <<messages, input, liveTranscription, isLoading, isVoiceMode,
                 callState, placeholders, clock>>
  /\ UNCHANGED <<vIsProcessing, recordVars, transportVars, mounted, vapiVars, simpleVars>>

\* getUserMedia resolves for the i-th pending startRecording and the
\* MediaRecorder constructor throws (the mimeType 'audio/webm;codecs=opus'
\* is not supported): the stream and the audio context are already in
\* their refs when the catch block runs.
VoiceRecorderFails(i) ==
  /\ i \in 1..Len(vStarts)
  /\ LET s == Opened + 1
     IN /\ media' = [media EXCEPT ![s] =
                       [owner |-> "voice", live |-> TRUE, rec |-> "failed",
                        mode |-> vStarts[i], ctx |-> "open", chunks |-> NoBlob,
                        asked |-> FALSE, captured |-> 0, stops |-> 0,
                        closes |-> 0, polled |-> FALSE, interim |-> FALSE]]
        /\ vStreamRef' = s
        /\ vCtxRef' = s
  /\ vStarts' = RemoveAt(vStarts, i)
  /\ UNCHANGED <<vIsRecording, vIsProcessing, vRecorderRef, vIntervalRef,
                 vIntervals, vChunks>>
  /\ UNCHANGED <<chatVars, recordVars, transportVars, mounted, vapiVars, simpleVars>>

\* ondataavailable of a recorder started with start(1000): every chunk is
\* pushed to the shared audioChunksRef.
VoiceDataAvailable(s) ==
  /\ media[s].owner = "voice" /\ media[s].rec = "recording" /\ media[s].mode
  /\ Len(vChunks) < MaxChunks
  /\ vChunks' = Append(vChunks, s)
  /\ media' = [media EXCEPT ![s].captured = @ + 1]
  /\ UNCHANGED <<vIsRecording, vIsProcessing, vStarts, vRecorderRef, vStreamRef,
                 vCtxRef, vIntervalRef, vIntervals>>
  /\ UNCHANGED <<chatVars, recordVars, transportVars, mounted, vapiVars, simpleVars>>

\* The isRecording that the closures of a startRecording call read:
\* handleClick calls startRecording only in a render where isRecording is
\* false, and the closures keep that render's constant.
IsRecordingAtStart == FALSE

\* The setInterval callback of recording s, every TRANSCRIPTION_INTERVAL:
\* processCurrentAudio is called when the closure's isRecording is true and
\* chunks have accumulated; it takes the accumulated chunks and sends them
\* for transcription.
VoiceTranscriptionInterval(s) ==
  /\ s \in vIntervals
  /\ LET due == media[s].rec = "recording" /\ Len(vChunks) > 0
     IN IF IsRecordingAtStart /\ Len(vChunks) > 0
        THEN /\ vChunks' = <<>>
             /\ media' = [media EXCEPT ![s].polled = @ \/ due, ![s].interim = TRUE]
        ELSE /\ media' = [media EXCEPT ![s].polled = @ \/ due]
             /\ UNCHANGED vChunks
  /\ UNCHANGED <<vIsRecording, vIsProcessing, vStarts, vRecorderRef, vStreamRef,
                 vCtxRef, vIntervalRef, vIntervals>>
  /\ UNCHANGED <<chatVars, recordVars, transportVars, mounted, vapiVars, simpleVars>>

\* handleClick while recording: stopRecording.
VoiceStopRecording ==
  /\ mounted
  /\ ~isLoading /\ ~vIsProcessing
  /\ vIsRecording
  /\ vRecorderRef # NoStream
  /\ media' = CloseContext(StopTracks(StopRecorder(media, vRecorderRef), vStreamRef),
                           vCtxRef)
  /\ vIsRecording' = FALSE
  /\ chatIsRecording' = FALSE
  /\ vIntervals' = vIntervals \ {vIntervalRef}
  /\ vIntervalRef' = NoStream
  /\ UNCHANGED <<messages, input, liveTranscription, isLoading, isVoiceMode,
                 callState, placeholders, clock>>
  /\ UNCHANGED <<vIsProcessing, vStarts, vRecorderRef, vStreamRef, vCtxRef, vChunks>>
  /\ UNCHANGED <<recordVars, transportVars, mounted, vapiVars, simpleVars>>

\* The final 'dataavailable' of recorder s and its onstop handler up to the
\* await of fetch in convertAudioToText.
VoiceOnStop(s) ==
  /\ media[s].owner = "voice" /\ media[s].rec = "stopping"
  /\ vChunks' = Append(vChunks, s)
  /\ media' = [CloseContext(StopTracks(media, s), vCtxRef) EXCEPT
                 ![s].rec = "waiting",
                 ![s].chunks = Len(vChunks) + 1,
                 ![s].captured = @ + 1,
                 ![s].asked = TRUE]
  /\ vIntervals' = vIntervals \ {vIntervalRef}
  /\ vIntervalRef' = NoStream
  /\ vIsProcessing' = TRUE
  /\ UNCHANGED <<vIsRecording, vStarts, vRecorderRef, vStreamRef, vCtxRef>>
  /\ UNCHANGED <<chatVars, recordVars, transportVars, mounted, vapiVars, simpleVars>>

TranscribeOutcomes == {"transcript", "nothing"}

\* The fetch of convertAudioToText settles for recording s and onstop runs
\* to its end: with a transcript (success and a non-blank text) or with
\* nothing (success:false, a blank text, a network error).  In text mode the
\* transcript goes to onVoiceInput, the sendMessage of the render the
\* recording was started in, where isLoading was false.
TranscribeResponse(s, outcome) ==
  /\ media[s].owner = "voice" /\ media[s].rec = "waiting"
  /\ media' = [media EXCEPT ![s].rec = "done"]
  /\ vIsProcessing' = FALSE
  /\ IF outcome = "transcript"
     THEN IF media[s].mode
          THEN /\ liveTranscription' = "live"
               /\ UNCHANGED <<messages, input, isLoading, callState, clock>>
          ELSE /\ NextCall <= MaxCalls
               /\ \E t \in Now : SendMessageStart(NextCall, t)
     ELSE UNCHANGED <<messages, input, liveTranscription, isLoading, callState, clock>>
  /\ UNCHANGED <<isVoiceMode, chatIsRecording, placeholders>>
  /\ UNCHANGED <<vIsRecording, vStarts, vRecorderRef, vStreamRef, vCtxRef,
                 vIntervalRef, vIntervals, vChunks>>
  /\ UNCHANGED <<recordVars, transportVars, mounted, vapiVars, simpleVars>>

\* The backend never answers the transcription request of recording s.
TranscribeNeverAnswered(s) ==
  /\ media[s].owner = "voice" /\ media[s].rec = "waiting"
  /\ media' = [media EXCEPT ![s].rec = "hung"]
  /\ UNCHANGED <<chatVars, voiceVars, recordVars, transportVars, mounted, vapiVars, simpleVars>>

\* ---- RecordButton.jsx ----

\* handleClick while not recording: startRecording runs to its await of
\* getUserMedia.  The button is disabled while isLoading or isVoiceMode;
\* nothing else guards the call.
RecordStartRecording ==
  /\ mounted
  /\ ~(isLoading \/ isVoiceMode)
  /\ ~rIsRecording
  /\ MicBudget
  /\ rStarts' = rStarts + 1
  /\ UNCHANGED <<rIsRecording, rRecorderRef, rTimerRef, rIntervals, rAutoStops, rChunks>>
  /\ UNCHANGED <<chatVars, media, voiceVars, transportVars, mounted, vapiVars, simpleVars>>

\* getUserMedia rejects: the catch block.
RecordMicDenied ==
  /\ rStarts > 0
  /\ rStarts' = rStarts - 1
  /\ UNCHANGED <<rIsRecording, rRecorderRef, rTimerRef, rIntervals, rAutoStops, rChunks>>
  /\ UNCHANGED <<chatVars, media, voiceVars, transportVars, mounted, vapiVars, simpleVars>>

\* getUserMedia resolves and startRecording runs to its end.
RecordMicGranted ==
  /\ rStarts > 0
  /\ rStarts' = rStarts - 1
  /\ LET s == Opened + 1
     IN /\ media' = [media EXCEPT ![s] =
                       [owner |-> "record", live |-> TRUE, rec |-> "recording",
                        mode |-> FALSE, ctx |-> "none", chunks |-> NoBlob,
                        asked |-> FALSE, captured |-> 0, stops |-> 0,
                        closes |-> 0, polled |-> FALSE, interim |-> FALSE]]
        /\ rRecorderRef' = s
        /\ rTimerRef' = s
        /\ rIntervals' = rIntervals \cup {s}
        /\ rAutoStops' = rAutoStops \cup {s}
  /\ rChunks' = <<>>
  /\ rIsRecording' = TRUE
  /\ UNCHANGED <<chatVars, voiceVars, transportVars, mounted, vapiVars, simpleVars>>

\* getUserMedia resolves and the MediaRecorder constructor or start(100)
\* throws: the catch block runs with the stream in a local of startRecording.
RecordRecorderFails ==
  /\ rStarts > 0
  /\ rStarts' = rStarts - 1
  /\ media' = [media EXCEPT ![Opened + 1] =
                 [owner |-> "record", live |-> TRUE, rec |-> "failed",
                  mode |-> FALSE, ctx |-> "none", chunks |-> NoBlob,
                  asked |-> FALSE, captured |-> 0, stops |-> 0, closes |-> 0, polled |-> FALSE, interim |-> FALSE]]
  /\ UNCHANGED <<rIsRecording, rRecorderRef, rTimerRef, rIntervals, rAutoStops, rChunks>>
  /\ UNCHANGED <<chatVars, voiceVars, transportVars, mounted, vapiVars, simpleVars>>

\* ondataavailable of a recorder started with start(100): a chunk that is
\* not empty is pushed to the shared audioChunksRef.
RecordDataAvailable(s) ==
  /\ media[s].owner = "record" /\ media[s].rec = "recording"
  /\ Len(rChunks) < MaxChunks
  /\ rChunks' = Append(rChunks, s)
  /\ media' = [media EXCEPT ![s].captured = @ + 1]
  /\ UNCHANGED <<rIsRecording, rStarts, rRecorderRef, rTimerRef, rIntervals, rAutoStops>>
  /\ UNCHANGED <<chatVars, voiceVars, transportVars, mounted, vapiVars, simpleVars>>

\* The auto-stop timeout set for recording s fires.  Its callback reads the
\* isRecording of the render startRecording was called in, which is false:
\* it stops nothing.
RecordAutoStop(s) ==
  /\ s \in rAutoStops
  /\ rAutoStops' = rAutoStops \ {s}
  /\ UNCHANGED <<rIsRecording, rStarts, rRecorderRef, rTimerRef, rIntervals, rChunks>>
  /\ UNCHANGED <<chatVars, media, voiceVars, transportVars, mounted, vapiVars, simpleVars>>

\* handleClick while recording: stopRecording.
RecordStopRecording ==
  /\ mounted
  /\ ~(isLoading \/ isVoiceMode)
  /\ rIsRecording
  /\ rRecorderRef # NoStream
  /\ media' = StopRecorder(media, rRecorderRef)
  /\ rIsRecording' = FALSE
  /\ rIntervals' = rIntervals \ {rTimerRef}
  /\ rAutoStops' = rAutoStops \ {rTimerRef}
  /\ UNCHANGED <<rStarts, rRecorderRef, rTimerRef, rChunks>>
  /\ UNCHANGED <<chatVars, voiceVars, transportVars, mounted, vapiVars, simpleVars>>

\* The final 'dataavailable' of recorder s, whose chunk is pushed if it is
\* not empty, and its onstop handler up to the await of saveAudioRecording.
RecordOnStop(s, finalChunk) ==
  /\ media[s].owner = "record" /\ media[s].rec = "stopping"
  /\ LET chunks == IF finalChunk THEN Append(rChunks, s) ELSE rChunks
     IN /\ rChunks' = chunks
        /\ media' = [media EXCEPT ![s].rec = "waiting",
                                  ![s].chunks = Len(chunks),
                                  ![s].captured = IF finalChunk THEN @ + 1 ELSE @,
                                  ![s].asked = TRUE]
  /\ UNCHANGED <<rIsRecording, rStarts, rRecorderRef, rTimerRef, rIntervals, rAutoStops>>
  /\ UNCHANGED <<chatVars, voiceVars, transportVars, mounted, vapiVars, simpleVars>>

SaveOutcomes == {"saved", "failed", "threw"}

\* An onstop whose catch block hands nothing to onAudioRecorded.
AudioRecordedCalls_SilentCatch(outcome) ==
  CASE outcome = "saved"  -> <<"savedName">>
    [] outcome = "failed" -> <<"temp.wav">>
    [] outcome = "threw"  -> <<>>

\* The calls of onAudioRecorded in onstop, by the name of the file passed:
\* the file named saveResult.filename when the save succeeded, the temp.wav
\* file in the else branch and in the catch block.
AudioRecordedCalls(outcome) ==
  CASE outcome = "saved"  -> <<"savedName">>
    [] outcome = "failed" -> <<"temp.wav">>
    [] outcome = "threw"  -> <<"temp.wav">>

\* saveAudioRecording settles for recording s and onstop runs to its end:
\* every call of onAudioRecorded, which is handleAudioRecorded, appends an
\* audio message and sets the timeout of a placeholder reply.
SaveResult(s, outcome) ==
  /\ media[s].owner = "record" /\ media[s].rec = "waiting"
  /\ LET calls == AudioRecordedCalls(outcome) IN
     /\ \E t \in Now :
          /\ clock' = IF calls = <<>> THEN clock ELSE t
          /\ messages' = messages \o [i \in 1..Len(calls) |->
                                        Message(t, "user", "audio", NoCall, s)]
     /\ placeholders' = placeholders \o [i \in 1..Len(calls) |-> s]
     /\ media' = [StopTracks(media, s) EXCEPT ![s].rec = "done"]
  /\ rIntervals' = rIntervals \ {rTimerRef}
  /\ rAutoStops' = rAutoStops \ {rTimerRef}
  /\ UNCHANGED <<input, liveTranscription, isLoading, isVoiceMode,
                 chatIsRecording, callState>>
  /\ UNCHANGED <<rIsRecording, rStarts, rRecorderRef, rTimerRef, rChunks>>
  /\ UNCHANGED <<voiceVars, transportVars, mounted, vapiVars, simpleVars>>

\* ---- VAPIVoiceButton.jsx ----
\* The component is exported and no component of src/ renders it: its
\* onVoiceModeChange and onVoiceResponse props belong to a parent that is
\* not there, and it is taken as never disabled.

\* stopRecording: the recorder is stopped, the timer cleared and the tracks
\* of the stream in streamRef stopped, when a recorder exists and
\* isRecording is true.
VapiStopRecording ==
  IF vapiRecorderRef # NoStream /\ vapiIsRecording
  THEN /\ media' = StopTracks(StopRecorder(media, vapiRecorderRef), vapiStreamRef)
       /\ vapiIsRecording' = FALSE
       /\ vapiIntervals' = vapiIntervals \ {vapiTimerRef}
  ELSE UNCHANGED <<media, vapiIsRecording, vapiIntervals>>

\* toggleVoiceMode: entering voice mode runs startRecording to its await of
\* getUserMedia, leaving it runs stopRecording.
VapiToggleVoiceMode ==
  /\ vapiIsVoiceMode' = ~vapiIsVoiceMode
  /\ IF ~vapiIsVoiceMode
     THEN /\ MicBudget
          /\ vapiStarts' = vapiStarts + 1
          /\ UNCHANGED <<media, vapiIsRecording, vapiIntervals>>
     ELSE /\ VapiStopRecording
          /\ UNCHANGED vapiStarts
  /\ UNCHANGED <<vapiRecorderRef, vapiStreamRef, vapiTimerRef, vapiChunks>>
  /\ UNCHANGED <<chatVars, voiceVars, recordVars, transportVars, mounted, simpleVars>>

\* getUserMedia rejects: the catch block.
VapiMicDenied ==
  /\ vapiStarts > 0
  /\ vapiStarts' = vapiStarts - 1
  /\ UNCHANGED <<vapiIsVoiceMode, vapiIsRecording, vapiRecorderRef, vapiStreamRef,
                 vapiTimerRef, vapiIntervals, vapiChunks>>
  /\ UNCHANGED <<chatVars, media, voiceVars, recordVars, transportVars, mounted, simpleVars>>

\* getUserMedia resolves and startRecording runs to its end.
VapiMicGranted ==
  /\ vapiStarts > 0
  /\ vapiStarts' = vapiStarts - 1
  /\ LET s == Opened + 1
     IN /\ media' = [media EXCEPT ![s] =
                       [NoMedia EXCEPT !.owner = "vapi", !.live = TRUE,
                                       !.rec = "recording"]]
        /\ vapiStreamRef' = s
        /\ vapiRecorderRef' = s
        /\ vapiTimerRef' = s
        /\ vapiIntervals' = vapiIntervals \cup {s}
  /\ vapiChunks' = <<>>
  /\ vapiIsRecording' = TRUE
  /\ UNCHANGED vapiIsVoiceMode
  /\ UNCHANGED <<chatVars, voiceVars, recordVars, transportVars, mounted, simpleVars>>

\* getUserMedia resolves and the MediaRecorder constructor throws: the
\* stream is in streamRef and the chunks are cleared when the catch block
\* runs.
VapiRecorderFails ==
  /\ vapiStarts > 0
  /\ vapiStarts' = vapiStarts - 1
  /\ LET s == Opened + 1
     IN /\ media' = [media EXCEPT ![s] =
                       [NoMedia EXCEPT !.owner = "vapi", !.live = TRUE,
                                       !.rec = "failed"]]
        /\ vapiStreamRef' = s
  /\ vapiChunks' = <<>>
  /\ UNCHANGED <<vapiIsVoiceMode, vapiIsRecording, vapiRecorderRef, vapiTimerRef,
                 vapiIntervals>>
  /\ UNCHANGED <<chatVars, voiceVars, recordVars, transportVars, mounted, simpleVars>>

\* ondataavailable of a recorder started with start(100): a chunk that is
\* not empty is pushed to the shared audioChunksRef.
VapiDataAvailable(s) ==
  /\ media[s].owner = "vapi" /\ media[s].rec = "recording"
  /\ Len(vapiChunks) < MaxChunks
  /\ vapiChunks' = Append(vapiChunks, s)
  /\ media' = [media EXCEPT ![s].captured = @ + 1]
  /\ UNCHANGED <<vapiIsVoiceMode, vapiIsRecording, vapiStarts, vapiRecorderRef,
                 vapiStreamRef, vapiTimerRef, vapiIntervals>>
  /\ UNCHANGED <<chatVars, voiceVars, recordVars, transportVars, mounted, simpleVars>>

\* onstop of recorder s and the onload of its FileReader, up to the await
\* of fetch: the blob is assembled from the shared chunks and sent to
\* /transcribe.
VapiOnStop(s) ==
  /\ media[s].owner = "vapi" /\ media[s].rec = "stopping"
  /\ media' = [media EXCEPT ![s].rec = "waiting",
                            ![s].chunks = Len(vapiChunks),
                            ![s].asked = TRUE]
  /\ UNCHANGED vapiVars
  /\ UNCHANGED <<chatVars, voiceVars, recordVars, transportVars, mounted, simpleVars>>

\* The fetch settles for recording s: the transcript goes to the parent's
\* onVoiceResponse, a failure raises an alert.
VapiTranscribeResponse(s, outcome) ==
  /\ media[s].owner = "vapi" /\ media[s].rec = "waiting"
  /\ media' = [media EXCEPT ![s].rec = IF outcome = "transcript" THEN "done"
                                       ELSE "alerted"]
  /\ UNCHANGED vapiVars
  /\ UNCHANGED <<chatVars, voiceVars, recordVars, transportVars, mounted, simpleVars>>

\* ---- VoiceButton.jsx, the second component ----
\* The single-mode VoiceButton, rendered by the ChatWindow without voice
\* mode, whose sendMessage, handleVoiceInput and textarea are those of
\* ChatWindow.jsx less the live transcription.

\* handleClick while not recording: startRecording runs to its await of
\* getUserMedia.  The button is disabled while isLoading.
SimpleStartRecording ==
  /\ mounted
  /\ ~isLoading
  /\ ~simpleIsRecording
  /\ MicBudget
  /\ simpleStarts' = simpleStarts + 1
  /\ UNCHANGED <<simpleIsRecording, simpleRecorderRef, simpleChunks>>
  /\ UNCHANGED <<chatVars, media, voiceVars, recordVars, transportVars, mounted, vapiVars>>

\* getUserMedia rejects: the catch block.
SimpleMicDenied ==
  /\ simpleStarts > 0
  /\ simpleStarts' = simpleStarts - 1
  /\ UNCHANGED <<simpleIsRecording, simpleRecorderRef, simpleChunks>>
  /\ UNCHANGED <<chatVars, media, voiceVars, recordVars, transportVars, mounted, vapiVars>>

\* getUserMedia resolves and startRecording runs to its end.
SimpleMicGranted ==
  /\ simpleStarts > 0
  /\ simpleStarts' = simpleStarts - 1
  /\ LET s == Opened + 1
     IN /\ media' = [media EXCEPT ![s] =
                       [NoMedia EXCEPT !.owner = "simple", !.live = TRUE,
                                       !.rec = "recording"]]
        /\ simpleRecorderRef' = s
  /\ simpleChunks' = <<>>
  /\ simpleIsRecording' = TRUE
  /\ UNCHANGED <<chatVars, voiceVars, recordVars, transportVars, mounted, vapiVars>>

\* getUserMedia resolves and the MediaRecorder constructor throws: the
\* catch block runs with the stream in a local of startRecording.
SimpleRecorderFails ==
  /\ simpleStarts > 0
  /\ simpleStarts' = simpleStarts - 1
  /\ media' = [media EXCEPT ![Opened + 1] =
                 [NoMedia EXCEPT !.owner = "simple", !.live = TRUE,
                                 !.rec = "failed"]]
  /\ UNCHANGED <<simpleIsRecording, simpleRecorderRef, simpleChunks>>
  /\ UNCHANGED <<chatVars, voiceVars, recordVars, transportVars, mounted, vapiVars>>

\* handleClick while recording: stopRecording.
SimpleStopRecording ==
  /\ mounted
  /\ ~isLoading
  /\ simpleIsRecording
  /\ simpleRecorderRef # NoStream
  /\ media' = StopRecorder(media, simpleRecorderRef)
  /\ simpleIsRecording' = FALSE
  /\ UNCHANGED <<simpleStarts, simpleRecorderRef, simpleChunks>>
  /\ UNCHANGED <<chatVars, voiceVars, recordVars, transportVars, mounted, vapiVars>>

\* The 'dataavailable' of recorder s, started with start(), and its onstop
\* handler up to the await of fetch in convertAudioToText.
SimpleOnStop(s) ==
  /\ media[s].owner = "simple" /\ media[s].rec = "stopping"
  /\ simpleChunks' = Append(simpleChunks, s)
  /\ media' = [StopTracks(media, s) EXCEPT
                 ![s].rec = "waiting",
                 ![s].chunks = Len(simpleChunks) + 1,
                 ![s].captured = @ + 1,
                 ![s].asked = TRUE]
  /\ UNCHANGED <<simpleIsRecording, simpleStarts, simpleRecorderRef>>
  /\ UNCHANGED <<chatVars, voiceVars, recordVars, transportVars, mounted, vapiVars>>

\* How the /transcribe request of convertAudioToText ends: success with a
\* transcript, an answer without one (success false or an empty
\* transcript), or an exception of fetch or response.json().
SimpleTranscribeOutcomes == {"transcript", "failed", "threw"}

\* convertAudioToText of the second component: the string it returns, by
\* what the string is: the transcript, or one of its two notices.
ConvertAudioToText(outcome) ==
  CASE outcome = "transcript" -> "transcript"
    [] outcome = "failed"     -> "failedToTranscribe"
    [] outcome = "threw"      -> "failedToSend"

\* The fetch of convertAudioToText settles for recording s, and onstop
\* calls onVoiceInput(text): handleVoiceInput and the sendMessage of the
\* render the recording was started in, where isLoading was false, which
\* returns at once for an empty text and else runs to its await of fetch
\* with the text as the user's message.
SimpleTranscribeResponse(s, outcome) ==
  /\ media[s].owner = "simple" /\ media[s].rec = "waiting"
  /\ media' = [media EXCEPT ![s].rec = "done"]
  /\ LET text == ConvertAudioToText(outcome) IN
     IF text = ""
     THEN UNCHANGED <<messages, input, liveTranscription, isLoading, callState, clock>>
     ELSE /\ NextCall <= MaxCalls
          /\ input' = ""
          /\ liveTranscription' = ""
          /\ isLoading' = TRUE
          /\ callState' = [callState EXCEPT ![NextCall] = "fetching"]
          /\ \E t \in Now :
               /\ clock' = t
               /\ messages' = Append(messages, Message(t, "user", text, NextCall, s))
  /\ UNCHANGED <<isVoiceMode, chatIsRecording, placeholders>>
  /\ UNCHANGED simpleVars
  /\ UNCHANGED <<voiceVars, recordVars, transportVars, mounted, vapiVars>>

\* ---- teardown ----

\* ChatWindow is unmounted, and its buttons with it.  VoiceButton's effect
\* cleanup clears the interval, stops the tracks and closes the context its
\* refs name; a recorder whose tracks have all ended stops.  RecordButton
\* and ChatWindow register no cleanup.
Unmount ==
  /\ mounted
  /\ mounted' = FALSE
  /\ vIntervals' = vIntervals \ {vIntervalRef}
  /\ media' = CloseContext(
                StopTracks(IF vStreamRef = NoStream THEN media
                           ELSE StopRecorder(media, vStreamRef),
                           vStreamRef),
                vCtxRef)
  /\ UNCHANGED <<vIsRecording, vIsProcessing, vStarts, vRecorderRef, vStreamRef,
                 vCtxRef, vIntervalRef, vChunks>>
  /\ UNCHANGED <<chatVars, recordVars, transportVars, vapiVars, simpleVars>>

\* The renderer.
UINext ==
  \/ \E v \in {"", "typed"} : HandleTextareaChange(v)
  \/ HandleKeyPress
  \/ \E c \in Calls, o \in ChatOutcomes : ChatResponse(c, o)
  \/ \E c \in Calls : ChatNeverAnswered(c)
  \/ PlaceholderResponse
  \/ ToggleMode
  \/ VoiceStartRecording
  \/ \E i \in 1..MaxStreams : VoiceMicDenied(i)
  \/ \E i \in 1..MaxStreams : VoiceMicGranted(i)
  \/ \E i \in 1..MaxStreams : VoiceRecorderFails(i)
  \/ \E s \in Streams : VoiceDataAvailable(s)
  \/ \E s \in Streams : VoiceTranscriptionInterval(s)
  \/ VoiceStopRecording
  \/ \E s \in Streams : VoiceOnStop(s)
  \/ \E s \in Streams, o \in TranscribeOutcomes : TranscribeResponse(s, o)
  \/ \E s \in Streams : TranscribeNeverAnswered(s)
  \/ RecordStartRecording
  \/ RecordMicDenied
  \/ RecordMicGranted
  \/ RecordRecorderFails
  \/ \E s \in Streams : RecordDataAvailable(s)
  \/ \E s \in Streams : RecordAutoStop(s)
  \/ RecordStopRecording
  \/ \E s \in Streams, f \in BOOLEAN : RecordOnStop(s, f)
  \/ \E s \in Streams, o \in SaveOutcomes : SaveResult(s, o)
  \/ Unmount

\* process.platform is read by WindowClosed and Activate alone.
TransportInitDarwin == TransportInit /\ platform = "darwin" /\ UIInit

MainInit == TransportInit /\ UIInit

Init == MainInit

\* The request protocol of main.js, the renderer idle.
SpecTransport == TransportInitDarwin /\ [][TransportNext]_vars

\* All of main.js, the renderer idle.
SpecMain == MainInit /\ [][MainNext]_vars

\* The renderer, the main process not yet ready.
SpecUI == TransportInitDarwin /\ [][UINext]_vars

\* VAPIVoiceButton.
VapiNext ==
  \/ VapiToggleVoiceMode
  \/ VapiMicDenied
  \/ VapiMicGranted
  \/ VapiRecorderFails
  \/ \E s \in Streams : VapiDataAvailable(s)
  \/ \E s \in Streams : VapiOnStop(s)
  \/ \E s \in Streams, o \in TranscribeOutcomes : VapiTranscribeResponse(s, o)

\* VAPIVoiceButton alone, mounted by a parent that never disables it.
SpecVAPI == TransportInitDarwin /\ [][VapiNext]_vars

\* The ChatWindow without voice mode, with the single-mode VoiceButton.
SimpleNext ==
  \/ \E v \in {"", "typed"} : HandleTextareaChange(v)
  \/ HandleKeyPress
  \/ \E c \in Calls, o \in ChatOutcomes : ChatResponse(c, o)
  \/ \E c \in Calls : ChatNeverAnswered(c)
  \/ SimpleStartRecording
  \/ SimpleMicDenied
  \/ SimpleMicGranted
  \/ SimpleRecorderFails
  \/ SimpleStopRecording
  \/ \E s \in Streams : SimpleOnStop(s)
  \/ \E s \in Streams, o \in SimpleTranscribeOutcomes : SimpleTranscribeResponse(s, o)

SpecSimple == TransportInitDarwin /\ [][SimpleNext]_vars

Next == MainNext \/ UINext \/ VapiNext \/ SimpleNext

Spec == Init /\ [][Next]_vars

(***************************************************************************)
(* Claims about the transport (main.js).                                   *)
(***************************************************************************)
Settled(r) == reqState[r] \in {"resolved", "rejected"}

\* C2: a backend reply that arrives when its own request is no longer
\* waiting (already resolved or timed out) is dropped: no request is ever
\* resolved with a reply whose own request had already settled.
C2_StaleReplyDropped ==
  \A q \in Reqs :
    (reqState[q] = "resolved" /\ reqResult[q].kind = "reply")
      => reqResult[q].ofState = "pending"

\* C3: when two requests are outstanding at the same time, each is settled
\* only by the reply to that request: a reply to a request that is still
\* outstanding resolves that request and no other.
C3_SettledByOwnReply ==
  \A q \in Reqs :
    (reqState[q] = "resolved" /\ reqResult[q].kind = "reply"
       /\ reqResult[q].ofState = "pending")
      => reqResult[q].of = q

\* C4: every send-to-backend call settles at most once: once its promise has
\* settled, no later reply is delivered to it and its result never changes.
C4_SettlesOnce ==
  [][\A r \in Reqs :
       Settled(r) => /\ reqState'[r] = reqState[r]
                     /\ reqResult'[r] = reqResult[r]
                     /\ delivered'[r] = delivered[r]]_vars

\* A request resolved by its own reply, for which the backend has emitted a
\* second reply that was not delivered.
C4_Witness ==
  \E r \in Reqs :
    /\ reqState[r] = "resolved" /\ reqResult[r].of = r
    /\ replyCount[r] >= 2 /\ delivered[r] = 1

\* C5: once the 10 s timeout of a request has run, a request that got no
\* reply has failed with the timeout error, its response listener is
\* registered nowhere, and no reply that arrives for it afterwards is
\* delivered to anyone.
C5_TimeoutDeregisters ==
  \A r \in Reqs :
    reqTimer[r] = TimerFired =>
      /\ delivered[r] = 0 =>
           (reqState[r] = "rejected" /\ reqResult[r].kind = "timeout")
      /\ \A p \in Procs : <<p, r>> \notin listeners
      /\ \A q \in Reqs :
           ~(reqResult[q].kind = "reply" /\ reqResult[q].of = r
               /\ reqResult[q].ofState = "rejected")

\* C6: a request that was in flight when its backend process exited fails
\* with a channel-closed error.
C6_ExitFailsInFlight ==
  \A r \in Reqs :
    (Settled(r) /\ <<reqProc[r], r>> \in received
       /\ reqResult[r].procAtSettle = "exited")
      => reqResult[r].kind = "channelClosed"

\* C7: while the backend is disconnected nothing is written to a backend
\* process: every message written by send-to-backend and send-voice-to-backend
\* went to a process that was running.
C7_NoWriteWhileDisconnected ==
  /\ \A w \in stdinWrites : w \in received
  /\ "exited" \notin voiceWrites

(***************************************************************************)
(* Claims about the renderer (ChatWindow, VoiceButton, RecordButton).      *)
(***************************************************************************)
UnreleasedStreams(owner) ==
  {s \in Streams : media[s].owner = owner /\ media[s].live}

\* C1: a capture component never acquires a second microphone stream while
\* a stream it acquired earlier is still unreleased, whatever the clicks,
\* a click during the wait for the microphone included.
C1_OneStreamPerComponent ==
  \A o \in {"voice", "record"} : Cardinality(UnreleasedStreams(o)) <= 1

\* Some step lets the chat request of call c end.
ChatRequestEnds(c) == \E o \in ChatOutcomes : ChatResponse(c, o)

\* Some step lets the transcription request of recording s end.
TranscribeRequestEnds(s) == \E o \in TranscribeOutcomes : TranscribeResponse(s, o)

\* C8: a request of the renderer has a bounded wait: when the backend never
\* answers a chat or a transcription request, the request can still end
\* (in a failure), so that isLoading / isProcessing is cleared.
C8_BoundedWait ==
  /\ \A c \in Calls : callState[c] = "hung" => ENABLED ChatRequestEnds(c)
  /\ \A s \in Streams : media[s].rec = "hung" => ENABLED TranscribeRequestEnds(s)

\* C9: a recording stopped with no chunk captured sends no request to the
\* backend (transcription or save) and appends no message to the log.
C9_EmptyRecordingSendsNothing ==
  \A s \in Streams :
    media[s].chunks = 0 =>
      /\ ~media[s].asked
      /\ \A i \in DOMAIN messages : messages[i].rec # s

MessagesOf(c, sender) ==
  {i \in DOMAIN messages : messages[i].call = c /\ messages[i].sender = sender}

\* C10: every sendMessage call that passed its guard has appended exactly
\* one user message; it has appended no assistant message while its fetch is
\* outstanding and exactly one once the fetch has settled, and that
\* assistant message comes after the call's user message in the log.
C10_OneUserThenOneAssistant ==
  \A c \in Calls :
    /\ Cardinality(MessagesOf(c, "user")) = IF callState[c] = "none" THEN 0 ELSE 1
    /\ Cardinality(MessagesOf(c, "ai")) = IF callState[c] = "done" THEN 1 ELSE 0
    /\ \A i \in MessagesOf(c, "user"), j \in MessagesOf(c, "ai") : i < j

\* Two calls have settled, one of them through the catch block and one with
\* success:false, the second sent while the first was outstanding.
C10_Witness ==
  /\ \A c \in {1, 2} : callState[c] = "done"
  /\ \E i, j \in DOMAIN messages :
       /\ messages[i].kind = "unreachable"
       /\ messages[j].kind = "error"
  /\ messages[2].call = 1 /\ messages[3].call = 2

\* A voice or recording session ends in a failure: the microphone is
\* refused, or the transcription request fails, answers success:false or
\* answers a blank transcript.
SessionFails ==
  \/ \E i \in 1..MaxStreams : VoiceMicDenied(i)
  \/ RecordMicDenied
  \/ \E s \in Streams : TranscribeResponse(s, "nothing")

\* C11: every failure of a voice or recording session is surfaced by an
\* entry appended to the conversation log: the step in which a session
\* fails makes the log longer.
C11_FailureSurfacedInLog ==
  [][SessionFails => Len(messages') > Len(messages)]_vars

(***************************************************************************)
(* preload.js: the wrappers the renderer calls.                            *)
(***************************************************************************)
\* What an ipcRenderer.invoke promise settles with, as the wrapper sees it.
Invoke(state, success, error) ==
  [state |-> state, success |-> success, error |-> error]

\* What a wrapper's own promise settles with.
Outcome(state, success, error) ==
  [state |-> state, success |-> success, error |-> error]

\* The try/catch of sendMessage, sendVoice and saveAudioRecording: a resolved
\* invoke gives success true, whatever the value holds; a rejected one gives
\* success false with the error's message.
Wrap(invoke) ==
  IF invoke.state = "resolved"
  THEN Outcome("resolved", "true", "none")
  ELSE Outcome("resolved", "false", invoke.error)

\* ipcRenderer.invoke('send-to-backend') of invocation r, once it has settled.
InvokeSendToBackend(r) ==
  IF reqState[r] = "resolved"
  THEN Invoke("resolved", reqSuccess[r],
              IF reqSuccess[r] = "false" THEN "backendError" ELSE "none")
  ELSE Invoke("rejected", "none", reqResult[r].kind)

\* preload sendMessage for invocation r.
PreloadSendMessage(r) == Wrap(InvokeSendToBackend(r))

\* C12: when the backend answers a send-to-backend request with success
\* false, the result the caller of preload sendMessage gets is a failure
\* that carries the backend's error detail.
C12_BackendFailureReported ==
  \A r \in Reqs :
    (reqState[r] = "resolved" /\ reqSuccess[r] = "false") =>
      /\ PreloadSendMessage(r).success = "false"
      /\ PreloadSendMessage(r).error = "backendError"

\* How an ipcRenderer.invoke can fail: the handler threw 'Python backend not
\* running', the write threw, the 10 s timeout rejected, or main.js
\* registers no handler for the channel (as for 'save-audio-file').
InvokeErrors == {"notRunning", "writeError", "timeout", "noHandler"}

\* Every way an ipcRenderer.invoke of preload.js can settle.
Invokes ==
  {Invoke("resolved", s, "none") : s \in {"true", "none"}}
    \cup {Invoke("resolved", "false", "backendError")}
    \cup {Invoke("rejected", "none", e) : e \in InvokeErrors}

InvokesCoverSendToBackend ==
  \A r \in Reqs : Settled(r) => InvokeSendToBackend(r) \in Invokes

\* C14: in every conversation log the message ids are pairwise distinct
\* and strictly increasing in append order.
C14_IdsIncreasing ==
  \A i, j \in DOMAIN messages : i < j => messages[i].id < messages[j].id

\* C15: the conversation log is append-only: a step that changes it adds
\* exactly one entry at its end and leaves every earlier entry, with its
\* id, sender and content, where it was.
C15_AppendOnly ==
  [][messages' # messages =>
       /\ Len(messages') = Len(messages) + 1
       /\ SubSeq(messages', 1, Len(messages)) = messages]_vars

\* The log has grown by a user message, a reply, an audio message and a
\* placeholder reply.
C15_Witness ==
  \A k \in {"text", "response", "audio", "placeholder"} :
    \E i \in DOMAIN messages : messages[i].kind = k

\* The chunk buffer of the component that owns stream s.
ChunkBuffer(s) == IF media[s].owner = "voice" THEN vChunks ELSE rChunks

\* The chunks recorder s has delivered, in arrival order.
CapturedBy(s) == [i \in 1..media[s].captured |-> s]

\* C16: the payload a stop handler assembles consists of exactly the chunks
\* captured during that recording, in arrival order: when onstop of
\* recording s builds its blob, the chunk buffer holds the chunks of s, all
\* of them and no others.
C16_PayloadIsOwnChunks ==
  [][\A s \in Streams :
       (media[s].rec = "stopping" /\ media'[s].rec = "waiting")
         => ChunkBuffer(s)' = CapturedBy(s)']_vars

\* The timers that are set for recording s.
TimersOf(s) ==
  (IF s \in vIntervals THEN {"transcription"} ELSE {})
    \cup (IF s \in rIntervals THEN {"recordingTime"} ELSE {})
    \cup (IF s \in rAutoStops THEN {"autoStop"} ELSE {})

\* C17: when a capture component is unmounted while a recording is in
\* progress and stop was never called, the unmount releases the recording's
\* microphone stream and cancels every timer started for it.
C17_TeardownReleases ==
  [][(mounted /\ ~mounted') =>
       \A s \in Streams :
         media[s].rec = "recording" => ~media'[s].live /\ TimersOf(s)' = {}]_vars

\* C18: the microphone is released on every error path of a start: after a
\* start that failed once the stream was acquired, the stream is not held
\* and the component is not recording on it.
C18_FailedStartReleases ==
  \A s \in Streams :
    media[s].rec = "failed" =>
      /\ ~media[s].live
      /\ ~(media[s].owner = "voice" /\ vIsRecording /\ vStreamRef = s)

\* C19: for each successful start the release of the acquired stream is
\* performed exactly once: its tracks are never stopped a second time and
\* close() is never called a second time on its audio context.
C19_ReleasedOnce ==
  \A s \in Streams :
    media[s].rec \notin {"none", "failed"} =>
      media[s].stops <= 1 /\ media[s].closes <= 1

\* C20: however a send-to-backend request ends, once it has settled its
\* response listener is registered on no stream and its timer is not
\* pending.
C20_SettledLeavesNothing ==
  \A r \in Reqs :
    Settled(r) =>
      /\ \A p \in Procs : <<p, r>> \notin listeners
      /\ reqTimer[r] \in {TimerUnset, TimerFired}

\* A capture component is recording.
Recording == vIsRecording \/ rIsRecording

\* A chat or a transcription request is outstanding.
AwaitingReply == isLoading \/ vIsProcessing

\* C21: the session is in one state at a time: in no reachable state is a
\* recording in progress (isRecording of VoiceButton or RecordButton) while
\* a chat or transcription request is outstanding (isLoading of ChatWindow
\* or isProcessing of VoiceButton).
C21_NeverRecordingAndAwaiting == ~(Recording /\ AwaitingReply)

\* The auto-stop timeout of a recording that is still in progress fires:
\* maxDuration seconds have passed since it started and the user has not
\* stopped it.
AutoStopFires(s) == media[s].rec = "recording" /\ RecordAutoStop(s)

\* C22: a RecordButton recording that the user does not stop is stopped
\* maxDuration seconds after it started: the step in which its auto-stop
\* timeout fires stops the recorder and makes isRecording false.
C22_AutoStopStops ==
  [][\A s \in Streams :
       AutoStopFires(s) => media'[s].rec = "stopping" /\ ~rIsRecording']_vars

\* C23: in voice mode, while a VoiceButton recording is in progress and
\* chunks have accumulated, the accumulated audio is sent for transcription
\* every TRANSCRIPTION_INTERVAL: once the interval of a recording has fired
\* with chunks accumulated, an interim transcription request was made.
C23_IntervalTranscribes ==
  \A s \in Streams : media[s].polled => media[s].interim

\* The sendMessage calls whose /chat request is outstanding.
OutstandingChats == {c \in Calls : callState[c] \in {"fetching", "hung"}}

\* C24: at most one /chat request is outstanding at any time: a sendMessage
\* invoked while an earlier one still awaits its reply, from the keyboard or
\* through onVoiceInput, sends no request.
C24_OneChatOutstanding == Cardinality(OutstandingChats) <= 1

(***************************************************************************)
(* Claims about the life cycle of the backend process (main.js).           *)
(***************************************************************************)
\* The backend process p exits in this step.
Exits(p) == procState[p] = "running" /\ procState'[p] = "exited"

\* A backend process is spawned in this step as a restart.
Restarts == ready /\ pythonProcess' # pythonProcess

\* C25: if the backend process exits while the main window exists and the
\* app is not quitting, a new backend process is started after the fixed
\* 2-second delay: the exit sets one timer of 2 s, a restart happens only
\* when such a timer has run down and is possible whenever one has; and the
\* restart re-sends nothing: it writes no request to the new process, and
\* every request has been written to the one process it was sent to.
C25_RestartAfterDelayNoResend ==
  [][/\ \A p \in Procs :
          (Exits(p) /\ mainWindow /\ ~isQuitting)
            => restartTimers' = Append(restartTimers, RestartDelayTicks)
     /\ Restarts => /\ RestartDue
                    /\ restartTimers' = Tail(restartTimers)
                    /\ stdinWrites' = stdinWrites
                    /\ received' = received
     /\ (RestartDue /\ ~AppExited) => ENABLED RestartBackend
     /\ \A w \in stdinWrites' : w[1] = reqProc'[w[2]]]_vars

\* The backend was restarted while a request written to the old process was
\* in flight, and the request is still pending.
C25_Witness ==
  \E r \in Reqs :
    /\ procState[1] = "exited" /\ procState[2] = "running" /\ pythonProcess = 2
    /\ reqState[r] = "pending" /\ <<1, r>> \in received
    /\ <<2, r>> \notin stdinWrites

\* A backend process is spawned in this step.
Spawns == \E p \in Procs : procState[p] = "none" /\ procState'[p] # "none"

\* C26: once the application has begun quitting (before-quit has run), no
\* new backend process is ever spawned, a restart that a backend exit had
\* scheduled before the quit began included.
C26_NoSpawnWhileQuitting == [][isQuitting => ~Spawns]_vars

\* The backend processes that are running.
Running == {p \in Procs : procState[p] = "running"}

\* C27: at any time at most one backend process spawned by the app is
\* running, and it is the one the pythonProcess global names:
\* startPythonBackend runs once at startup and afterwards only as the restart
\* of a process that has closed, so the running processes and the restarts
\* that are scheduled are never more than one together, whatever the backend
\* exits, window closes and re-activations.
C27_OneBackendProcess ==
  /\ Cardinality(Running) + Len(restartTimers) <= 1
  /\ \A p \in Running : p = pythonProcess

\* A restarted backend is the one running process, its predecessor has
\* exited and no further restart is scheduled.
C27_Witness ==
  /\ procState[1] = "exited" /\ Running = {2}
  /\ restartTimers = <<>>
  /\ mainWindow /\ ~isQuitting /\ platform = "darwin"

\* ipcMain.handle('get-backend-status'): the connected field of its result.
GetBackendStatus ==
  IF pythonProcess # NoProc THEN ~killed[pythonProcess] ELSE FALSE

\* C28: get-backend-status reports connected: true only while a backend
\* process is running: after the backend has exited on its own it reports
\* connected: false until a replacement has been spawned.
C28_ConnectedMeansRunning ==
  GetBackendStatus => procState[pythonProcess] = "running"

\* The audio messages appended for recording s.
AudioMessagesOf(s) ==
  {i \in DOMAIN messages : messages[i].kind = "audio" /\ messages[i].rec = s}

\* C29: for every RecordButton recording that stops, onAudioRecorded is
\* invoked exactly once, never before its save has settled: with the file
\* named by the save result when saveAudioRecording succeeded and with the
\* temp.wav file when it returned success false or threw; the call has
\* appended the one audio message of the recording.
C29_AudioRecordedOnce ==
  /\ \A o \in SaveOutcomes :
       AudioRecordedCalls(o) = <<IF o = "saved" THEN "savedName" ELSE "temp.wav">>
  /\ \A s \in Streams :
       media[s].owner = "record" =>
         Cardinality(AudioMessagesOf(s)) = IF media[s].rec = "done" THEN 1 ELSE 0

\* Two recordings have stopped and each has its audio message in the log,
\* the second appended before the placeholder reply to the first.
C29_Witness ==
  /\ \A s \in Streams : media[s].owner = "record" /\ media[s].rec = "done"
  /\ \E i \in DOMAIN messages :
       /\ i < Len(messages)
       /\ messages[i].kind = "audio" /\ messages[i + 1].kind = "audio"

\* The microphone streams VAPIVoiceButton holds and the recorders it has
\* running.
VapiHeld == {s \in Streams : media[s].owner = "vapi" /\ media[s].live}

VapiRunning == {s \in Streams : media[s].owner = "vapi" /\ media[s].rec = "recording"}

\* C30: in VAPIVoiceButton, for any sequence of toggles, whenever voice mode
\* is off no microphone stream is held and no recorder is running, and
\* whenever voice mode is on a recording is in progress or being started.
C30_VoiceModeMatchesRecording ==
  /\ ~vapiIsVoiceMode => VapiHeld = {} /\ VapiRunning = {}
  /\ vapiIsVoiceMode => vapiIsRecording \/ vapiStarts > 0

\* The VoiceButton recording s stops in this step.
VoiceStops(s) ==
  /\ media[s].owner = "voice"
  /\ media[s].rec = "recording" /\ media'[s].rec = "stopping"

\* C31: a VoiceButton recording that stops with a transcript is routed by
\* mode: in text mode the transcript is sent as one chat message, in voice
\* mode it is only put in the live transcription and no message is sent;
\* and the mode it is routed by is the mode in force when the recording
\* stops, the mode being unable to change while a recording is starting or
\* in progress.
C31_RoutedByModeAtStop ==
  [][\A s \in Streams :
       /\ VoiceStops(s) => media[s].mode = isVoiceMode
       /\ TranscribeResponse(s, "transcript") =>
            IF media[s].mode
            THEN messages' = messages /\ liveTranscription' = "live"
            ELSE /\ Len(messages') = Len(messages) + 1
                 /\ messages'[Len(messages')].kind = "text"]_vars

\* The user messages that the single-mode VoiceButton passed to onVoiceInput.
VoiceInputs ==
  {i \in DOMAIN messages :
     /\ messages[i].sender = "user"
     /\ messages[i].rec # NoStream
     /\ media[messages[i].rec].owner = "simple"}

\* C32: in the single-mode VoiceButton the text passed to onVoiceInput,
\* and so sent to the chat backend as a user message, is always a
\* transcript returned by a successful transcription: a failed
\* transcription or a failed request never makes a notice the user's
\* message.
C32_OnlyTranscriptsSent ==
  \A i \in VoiceInputs : messages[i].kind = "transcript"

====
